---- MODULE Spec2Model ----
(***************************************************************************)
(* bitformat: decoding of one WebSocket data frame (RFC 6455, 5.2) from a  *)
(* byte buffer, as done by WebSocketFrame::from_bytes, with the helpers it *)
(* calls: get_payload_length, get_bits_from_byte, get_bit and              *)
(* WebSocketOpCode::from_bit_value; and the rendering of the decoded frame *)
(* as a text diagram by WebSocketFrame::format, with format_header,        *)
(* format_first_dword, format_second_dword and format_payload_dword_row.   *)
(* ByteList::format, the table of a byte list, is modelled with it.        *)
(*                                                                         *)
(* Conventions.  A byte is a number in 0..255.  A Vec or slice is a        *)
(* sequence; the source indexes from 0, sequences from 1, and At(s, ix)    *)
(* is the source's s[ix].  A u64 is kept as four 16-bit limbs, most        *)
(* significant first, since its values exceed the 32-bit integers of TLC.  *)
(* A panic of the program is the outcome pc = "panicked".                  *)
(***************************************************************************)
EXTENDS Integers, Sequences, FiniteSets, TLC

VARIABLES
    data,            \* the caller's buffer handed to from_bytes
    pc,              \* "start", "returned" or "panicked"
    frame,           \* the WebSocketFrame from_bytes returned, or NoFrame
    panic_msg,       \* the panic that ended from_bytes, or NoPanic
    opcode_bits,     \* argument of a direct call of from_bit_value
    opcode,          \* what that call returned
    key,             \* masking key of a direct run of the unmasking loop
    original,        \* the bytes that run started from
    bytes,           \* the bytes after `rounds` runs of the loop
    rounds,          \* how many times the loop has run over `bytes`
    should_colorize, \* whether the colored crate writes colour sequences
    rendered,        \* what frame.format() did, or NotCalled
    row_call,        \* a direct call of format_payload_dword_row, or NotCalled
    rendered_again,  \* what a second call of format did, or NotCalled
    list_data,       \* the bytes handed to ByteList::from_bytes
    table            \* what ByteList::format returned, or NotCalled

vars == <<data, pc, frame, panic_msg, opcode_bits, opcode, key, original, bytes, rounds,
          should_colorize, rendered, row_call, rendered_again, list_data, table>>

frameVars == <<data, pc, frame, panic_msg>>
opcodeVars == <<opcode_bits, opcode>>
unmaskVars == <<key, original, bytes, rounds>>
formatVars == <<should_colorize, rendered, row_call, rendered_again>>
listVars == <<list_data, table>>

----------------------------------------------------------------------------
(* Bounds and input sets *)

\* longest buffer handed to from_bytes
MaxBufferLen == 15
\* longest byte sequence handed to the unmasking loop on its own
MaxPayloadLen == 5
\* how many times in a row the unmasking loop is run over its own output
MaxRounds == 2
\* most payload bytes declared by, and carried in, a frame handed to format
MaxFormatPayload == 13
\* most payload bytes of a frame whose rows are asked for one by one
MaxRowPayload == 6
\* largest byte index handed to format_payload_dword_row called on its own
MaxByteIx == 7
\* longest byte list handed to ByteList::format
MaxListLen == 17
\* largest part number handed to a row group
MaxPartNumber == 999
\* most payload bytes of the frames longer than a u8 counts
MaxLongFramePayload == 300

Byte == 0..255

\* bytes 2.. of the buffers with every header byte
HeaderTails == {<<0, 5, 90, 14, 145, 54, 59, 108, 242, 7, 0, 10>>,
                <<0, 0, 0, 0, 0, 0, 0, 10, 90, 14, 145, 54>>}
\* first bytes tried with every second byte: each flag bit alone, Text, Close
SampleByte0 == {0, 128, 64, 32, 16, 129, 136, 255}
\* second bytes tried with every first byte and every body: mask bit set and
\* clear, length codes 0, 3, 125, 126, 127
SampleByte1 == {128, 131, 3, 253, 254, 126, 255, 127}
\* second bytes of the buffers of every length
BodyByte1 == {131, 3, 254, 126, 255}
\* bytes 2.. of the buffers of every length repeat a seed of SeedLen of these
TailBytes == {0, 1, 165}
SeedLen == 5

HeaderBuffers ==
    {<<b0, b1>> \o t : b0 \in Byte, b1 \in SampleByte1, t \in HeaderTails}
    \cup {<<b0, b1>> \o t : b0 \in SampleByte0, b1 \in Byte, t \in HeaderTails}

\* every buffer length up to MaxBufferLen, the tail cycling through a seed
BodyBuffers ==
    {<<>>, <<129>>}
    \cup {<<129, b1>> \o [i \in 1..n |-> seed[((i - 1) % SeedLen) + 1]] :
            b1 \in BodyByte1, n \in 0..(MaxBufferLen - 2),
            seed \in [1..SeedLen -> TailBytes]}

\* a frame as a sender lays it out: header, length extension, key, payload
FrameKey == <<90, 14, 145, 54>>
FramePayload == <<59, 108, 242, 66, 50, 107, 246, 83, 53, 98>>
Take(s, n) == [i \in 1..n |-> s[i]]
EncodeFrame(b0, mask, variant, n) ==
    <<b0>>
    \o (CASE variant = "Short" -> <<mask + n>>
          [] variant = "Medium" -> <<mask + 126, n \div 256, n % 256>>
          [] variant = "Long" -> <<mask + 127, 0, 0, 0, 0, 0, 0, n \div 256, n % 256>>)
    \o FrameKey \o Take(FramePayload, n)

\* complete frames of each variant, mask bit set and clear
WellFormedBuffers ==
    {b \in {EncodeFrame(129, mask, variant, n) :
                mask \in {0, 128}, variant \in {"Short", "Medium", "Long"},
                n \in 0..Len(FramePayload)} : Len(b) <= MaxBufferLen}

Buffers == HeaderBuffers \cup BodyBuffers \cup WellFormedBuffers

\* inputs of the unmasking loop run on its own
KeyBytes == {0, 90, 255}
PayloadBytes == {59, 255}
Keys == [1..4 -> KeyBytes]
Payloads == UNION {[1..n -> PayloadBytes] : n \in 0..MaxPayloadLen}

----------------------------------------------------------------------------
(* Bytes, bits and fixed-width integers *)

At(s, ix) == s[ix + 1]

RECURSIVE AndBits(_, _, _)
AndBits(a, b, n) ==
    IF n = 0 THEN 0
    ELSE (a % 2) * (b % 2) + 2 * AndBits(a \div 2, b \div 2, n - 1)

RECURSIVE XorBits(_, _, _)
XorBits(a, b, n) ==
    IF n = 0 THEN 0
    ELSE (((a % 2) + (b % 2)) % 2) + 2 * XorBits(a \div 2, b \div 2, n - 1)

\* u8 & u8
BitAnd(a, b) == AndBits(a, b, 8)

\* u8 wrapping_add u8 in place of ^
BitXor_wrapping_add(a, b) == (a + b) % 256

\* u8 ^ u8
BitXor(a, b) == XorBits(a, b, 8)

\* u16::from_be_bytes
u16_from_be_bytes(b) == 256 * b[1] + b[2]

\* u64::from_be_bytes, as four 16-bit limbs
u64_from_be_bytes(b) ==
    <<256 * b[1] + b[2], 256 * b[3] + b[4], 256 * b[5] + b[6], 256 * b[7] + b[8]>>

\* `byte as char`: the character whose code point is the byte
as_char(byte) == [code_point |-> byte]

----------------------------------------------------------------------------
(* PayloadLength and WebSocketOpCode *)

Short(length) == [variant |-> "Short", length |-> length]
Medium(length) == [variant |-> "Medium", length |-> length]
Long(length) == [variant |-> "Long", length |-> length]

Panic(msg) == [variant |-> "panic", msg |-> msg]
IndexOutOfBounds == "index out of bounds"
SubtractOverflow == "attempt to subtract with overflow"
NoLengthForCode == "ERROR: Unable to determine payload length from code"

\* from_bit_value with 14 left out of the reserved values
from_bit_value_without_14(bits) ==
    CASE bits = 0 -> "Continuation"
      [] bits = 1 -> "Text"
      [] bits = 2 -> "Binary"
      [] bits = 8 -> "CloseConnection"
      [] bits = 9 -> "Ping"
      [] bits = 10 -> "Pong"
      [] bits \in {3, 4, 5, 6, 7, 11, 12, 13, 15} -> "ReservedFuture"
      [] OTHER -> "Unrecognized"

from_bit_value(bits) ==
    CASE bits = 0 -> "Continuation"
      [] bits = 1 -> "Text"
      [] bits = 2 -> "Binary"
      [] bits = 8 -> "CloseConnection"
      [] bits = 9 -> "Ping"
      [] bits = 10 -> "Pong"
      [] bits \in {3, 4, 5, 6, 7, 11, 12, 13, 14, 15} -> "ReservedFuture"
      [] OTHER -> "Unrecognized"

get_bits_from_byte(byte, mask) == BitAnd(byte, mask)

\* get_bit with position 0 the least significant bit
get_bit_lsb_first(byte, bit_position) ==
    CASE bit_position = 0 -> BitAnd(byte, 1) # 0
      [] bit_position = 1 -> BitAnd(byte, 2) # 0
      [] bit_position = 2 -> BitAnd(byte, 4) # 0
      [] bit_position = 3 -> BitAnd(byte, 8) # 0
      [] bit_position = 4 -> BitAnd(byte, 16) # 0
      [] bit_position = 5 -> BitAnd(byte, 32) # 0
      [] bit_position = 6 -> BitAnd(byte, 64) # 0
      [] bit_position = 7 -> BitAnd(byte, 128) # 0
      [] OTHER -> FALSE

get_bit(byte, bit_position) ==
    CASE bit_position = 0 -> BitAnd(byte, 128) # 0
      [] bit_position = 1 -> BitAnd(byte, 64) # 0
      [] bit_position = 2 -> BitAnd(byte, 32) # 0
      [] bit_position = 3 -> BitAnd(byte, 16) # 0
      [] bit_position = 4 -> BitAnd(byte, 8) # 0
      [] bit_position = 5 -> BitAnd(byte, 4) # 0
      [] bit_position = 6 -> BitAnd(byte, 2) # 0
      [] bit_position = 7 -> BitAnd(byte, 1) # 0
      [] OTHER -> FALSE

\* get_payload_length with the short range one code too wide (code <= 126)
get_payload_length_short126(c, ext) ==
    IF c <= 126 THEN Short(c)
    ELSE IF c = 127 THEN
        IF Len(ext) < 8 THEN Panic(IndexOutOfBounds)
        ELSE Long(u64_from_be_bytes(<<At(ext, 0), At(ext, 1), At(ext, 2), At(ext, 3),
                                      At(ext, 4), At(ext, 5), At(ext, 6), At(ext, 7)>>))
    ELSE Panic(NoLengthForCode)

\* Indexing ext_bytes past its end panics.
get_payload_length(c, ext) ==
    IF c <= 125 THEN Short(c)
    ELSE IF c = 126 THEN
        IF Len(ext) < 2 THEN Panic(IndexOutOfBounds)
        ELSE Medium(u16_from_be_bytes(<<At(ext, 0), At(ext, 1)>>))
    ELSE IF c = 127 THEN
        IF Len(ext) < 8 THEN Panic(IndexOutOfBounds)
        ELSE Long(u64_from_be_bytes(<<At(ext, 0), At(ext, 1), At(ext, 2), At(ext, 3),
                                      At(ext, 4), At(ext, 5), At(ext, 6), At(ext, 7)>>))
    ELSE Panic(NoLengthForCode)

----------------------------------------------------------------------------
(* WebSocketFrame::from_bytes *)

NUM_MASK_BYTES == 4

NoFrame == [variant |-> "none"]
NoPanic == "none"

\* for ix in 0..8 { if data.len() > ix + 2 { push(data[ix + 2]) } }
MaxExtensionBytes == 8
extension_data(d) ==
    LET pushed == {ix \in 0..(MaxExtensionBytes - 1) : Len(d) > ix + 2}
    IN  [i \in 1..Cardinality(pushed) |-> At(d, (i - 1) + 2)]

payload_start_index(pl) ==
    CASE pl.variant = "Short" -> 6
      [] pl.variant = "Medium" -> 8
      [] pl.variant = "Long" -> 14

\* the buffer indexes read for payload_length_bytes
payload_length_bytes_ixs(pl) ==
    CASE pl.variant = "Short" -> <<>>
      [] pl.variant = "Medium" -> <<2, 3>>
      [] pl.variant = "Long" -> <<2, 3, 4, 5, 6, 7, 8, 9>>

payload_length_bytes_of(d, pl, c) ==
    IF pl.variant = "Short" THEN <<c>>
    ELSE [i \in 1..Len(payload_length_bytes_ixs(pl))
            |-> At(d, payload_length_bytes_ixs(pl)[i])]

\* masking_key_ixs with the Medium key read where the Short key lies
masking_key_ixs_medium_at_2(pl) ==
    CASE pl.variant = "Short" -> <<2, 3, 4, 5>>
      [] pl.variant = "Medium" -> <<2, 3, 4, 5>>
      [] pl.variant = "Long" -> <<10, 11, 12, 13>>

\* the buffer indexes read for the masking key
masking_key_ixs(pl) ==
    CASE pl.variant = "Short" -> <<2, 3, 4, 5>>
      [] pl.variant = "Medium" -> <<4, 5, 6, 7>>
      [] pl.variant = "Long" -> <<10, 11, 12, 13>>

masking_key_of(d, pl) == [i \in 1..4 |-> At(d, masking_key_ixs(pl)[i])]

\* usize subtraction: below zero it panics in a build with overflow checks and
\* wraps in one without, to 2^64 + a - b, which is above every buffer length.
usize_sub(a, b, overflow_checks) ==
    IF a >= b THEN [panic |-> FALSE, wrapped |-> FALSE, value |-> a - b]
    ELSE IF overflow_checks THEN [panic |-> TRUE, wrapped |-> FALSE, value |-> 0]
    ELSE [panic |-> FALSE, wrapped |-> TRUE, value |-> 0]

\* unmask with the key cycled over 3 bytes instead of 4
unmask_key_mod_3(d, start, num, masking_key) ==
    [i \in 1..num |-> BitXor(At(d, start + (i - 1)), At(masking_key, (i - 1) % 3))]

\* for i in 0..num { data[start + i] ^ masking_key[i % NUM_MASK_BYTES] }
unmask(d, start, num, masking_key) ==
    [i \in 1..num |-> BitXor(At(d, start + (i - 1)),
                             At(masking_key, (i - 1) % NUM_MASK_BYTES))]

payload_chars_of(unmasked) == [i \in 1..Len(unmasked) |-> as_char(unmasked[i])]

\* &data[from..to]
slice(d, from, to) == [i \in 1..(to - from) |-> At(d, from + (i - 1))]

InBounds(d, ixs) == \A i \in 1..Len(ixs) : ixs[i] < Len(d)

\* What from_bytes does on buffer d: the panic that ends it or the frame it returns.
\* overflow_checks tells whether the build panics on integer overflow.
from_bytes(d, overflow_checks) ==
    IF ~InBounds(d, <<0>>) THEN [panic |-> IndexOutOfBounds, frame |-> NoFrame]
    ELSE IF ~InBounds(d, <<1>>) THEN [panic |-> IndexOutOfBounds, frame |-> NoFrame]
    ELSE
    LET frame_length == Len(d)
        opcode_bits_ == get_bits_from_byte(At(d, 0), 15)
        is_payload_masked == get_bit(At(d, 1), 0)
        payload_length_code == get_bits_from_byte(At(d, 1), 127)
        pl == get_payload_length(payload_length_code, extension_data(d))
    IN  IF pl.variant = "panic" THEN [panic |-> pl.msg, frame |-> NoFrame]
        ELSE
        LET start == payload_start_index(pl)
            num_payload_bytes == usize_sub(frame_length, start, overflow_checks)
        IN  IF ~InBounds(d, payload_length_bytes_ixs(pl))
                THEN [panic |-> IndexOutOfBounds, frame |-> NoFrame]
            ELSE IF num_payload_bytes.panic
                THEN [panic |-> SubtractOverflow, frame |-> NoFrame]
            ELSE IF ~InBounds(d, masking_key_ixs(pl))
                THEN [panic |-> IndexOutOfBounds, frame |-> NoFrame]
            ELSE IF num_payload_bytes.wrapped /\ ~InBounds(d, <<start>>)
                THEN [panic |-> IndexOutOfBounds, frame |-> NoFrame]
            ELSE
            LET masking_key == masking_key_of(d, pl)
                unmasked_payload == unmask(d, start, num_payload_bytes.value, masking_key)
            IN  [panic |-> NoPanic,
                 frame |-> [
                    frame_len |-> Len(d) % 256,
                    is_payload_masked |-> is_payload_masked,
                    payload_length |-> pl,
                    fin_bit |-> get_bit(At(d, 0), 0),
                    rsv1 |-> get_bit(At(d, 0), 1),
                    rsv2 |-> get_bit(At(d, 0), 2),
                    rsv3 |-> get_bit(At(d, 0), 3),
                    opcode_bits |-> opcode_bits_,
                    opcode |-> from_bit_value(opcode_bits_),
                    mask_bit |-> is_payload_masked,
                    payload_length_code |-> payload_length_code,
                    payload_length_bytes |-> payload_length_bytes_of(d, pl, payload_length_code),
                    masking_key |-> masking_key,
                    masked_payload |-> slice(d, start, Len(d)),
                    unmasked_payload |-> unmasked_payload,
                    payload_chars |-> payload_chars_of(unmasked_payload)]]

----------------------------------------------------------------------------
(* Text: String, format! and the colored crate *)

(* A String is a TLA+ string.  ESC stands for the escape character U+001B, *)
(* one character long as in the source's output; it is written as the     *)
(* form feed, which no text of the program contains.                       *)
ESC == "\f"

Blanks == "                                                                "
Blank(n) == SubSeq(Blanks, 1, n)

\* {:w} on a str: left-aligned, padded with spaces, never truncated
Left(s, w) == IF Len(s) >= w THEN s ELSE s \o Blank(w - Len(s))
\* {:>w}
Right(s, w) == IF Len(s) >= w THEN s ELSE Blank(w - Len(s)) \o s
\* {:^w}: the odd space goes to the right
Center(s, w) ==
    IF Len(s) >= w THEN s
    ELSE Blank((w - Len(s)) \div 2) \o s \o Blank((w - Len(s)) - ((w - Len(s)) \div 2))

\* Display of a u64 kept as limbs: decimal digits by long division by ten
DivLimbs10(v) ==
    LET c1 == v[1]
        c2 == ((c1 % 10) * 65536) + v[2]
        c3 == ((c2 % 10) * 65536) + v[3]
        c4 == ((c3 % 10) * 65536) + v[4]
    IN  [q |-> <<c1 \div 10, c2 \div 10, c3 \div 10, c4 \div 10>>, r |-> c4 % 10]

RECURSIVE u64_digits(_)
u64_digits(v) ==
    IF v = <<0, 0, 0, 0>> THEN ""
    ELSE u64_digits(DivLimbs10(v).q) \o ToString(DivLimbs10(v).r)

u64_to_string(v) == IF v = <<0, 0, 0, 0>> THEN "0" ELSE u64_digits(v)

\* Display of a char (U+0000..U+00FF, from a byte): the character itself.
\* Printable ASCII but the grave accent, tab, newline and carriage return are
\* themselves.  The strings here cannot hold the other characters: the
\* printable ones (the grave accent, U+00A0..U+00FF) are written as
\* OtherGlyph, one character taking one column as they do, and the control
\* characters (the rest of U+0000..U+001F, U+007F..U+009F) as OtherChar, the
\* form feed again, one character taking no column.  The text does not tell
\* the characters of either group apart.
AsciiBelowGrave ==
    " !\"#$%&'()*+,-./0123456789:;<=>?@ABCDEFGHIJKLMNOPQRSTUVWXYZ[\\]^_"
AsciiAboveGrave == "abcdefghijklmnopqrstuvwxyz{|}~"
OtherChar == "\f"
OtherGlyph == "?"
char_to_string(ch) ==
    CASE ch.code_point \in 32..95 ->
            SubSeq(AsciiBelowGrave, ch.code_point - 31, ch.code_point - 31)
      [] ch.code_point \in 97..126 ->
            SubSeq(AsciiAboveGrave, ch.code_point - 96, ch.code_point - 96)
      [] ch.code_point = 9 -> "\t"
      [] ch.code_point = 10 -> "\n"
      [] ch.code_point = 13 -> "\r"
      [] ch.code_point = 96 \/ ch.code_point \in 160..255 -> OtherGlyph
      [] OTHER -> OtherChar

\* colored::Color as the SGR code the colored crate writes for it
Red == "31"
Green == "32"
Yellow == "33"
Blue == "34"
Magenta == "35"
Cyan == "36"
White == "37"

FormatStyle_new ==
    [border_color |-> Cyan, tick_mark_color |-> Green, title_color |-> White,
     column_title_color |-> Green, dword_title_color |-> Green,
     notes_color |-> Magenta, bit_color |-> White,
     unmasked_payload_bit_color |-> Yellow, byte_value_color |-> Blue,
     data_value_color |-> Red, summary_title_color |-> Magenta,
     summary_value_color |-> Red]

\* Display of text.color(c), text already padded to the width asked for: the
\* padding lies inside the colour sequences.  With colouring off (a setting of
\* the process environment) the text is written alone.
color(text, c, colorize) ==
    IF colorize THEN ESC \o "[" \o c \o "m" \o text \o ESC \o "[0m" ELSE text

bit_str(bit) == IF bit THEN "1" ELSE "0"

BITS_IN_BYTE == 8

\* bits (8 - num_bits)..7 of the byte, each followed by a space
RECURSIVE spaced_bits(_, _)
spaced_bits(byte, ix) ==
    IF ix >= BITS_IN_BYTE THEN ""
    ELSE bit_str(get_bit(byte, ix)) \o " " \o spaced_bits(byte, ix + 1)

\* trim() takes the last space off
byte_str(byte, num_bits) ==
    LET s == spaced_bits(byte, BITS_IN_BYTE - num_bits)
    IN  IF Len(s) = 0 THEN s ELSE SubSeq(s, 1, Len(s) - 1)

\* {:?} of a PayloadLength
payload_length_debug(pl) ==
    CASE pl.variant = "Short" -> "Short(" \o ToString(pl.length) \o ")"
      [] pl.variant = "Medium" -> "Medium(" \o ToString(pl.length) \o ")"
      [] pl.variant = "Long" -> "Long(" \o u64_to_string(pl.length) \o ")"

----------------------------------------------------------------------------
(* WebSocketFrame::format and the rows it is made of *)

(* A rendering is [panic, text, shows]: the panic that ended it or NoPanic, *)
(* the String returned, and the frame bytes whose bits the text writes, as *)
(* <<field, index>> in the order written.                                  *)
RECURSIVE JoinLines(_)
JoinLines(lines) ==
    IF lines = <<>> THEN "" ELSE Head(lines) \o "\n" \o JoinLines(Tail(lines))

\* the lines pushed to the result, each with its newline
Rendering(lines, shows) == [panic |-> NoPanic, text |-> JoinLines(lines), shows |-> shows]
RenderPanic(msg) == [panic |-> msg, text |-> "", shows |-> <<>>]

HeaderBorder == "+---------------+---------------+---------------+---------------+"

format_header(f, colorize) ==
    LET st == FormatStyle_new
        bar == color("|", st.border_color, colorize)
        tick(t) == color(t, st.tick_mark_color, colorize)
        col(t) == color(Center(t, 15), st.column_title_color, colorize)
    IN  Rendering(<<
          Blank(15) \o color(HeaderBorder, st.border_color, colorize),
          color(Center("Frame Data", 15), st.title_color, colorize) \o bar
            \o col("Byte  1") \o bar \o col("Byte  2") \o bar
            \o col("Byte  3") \o bar \o col("Byte  4") \o bar,
          Left(" ", 2)
            \o color(Center(IF f.is_payload_masked THEN "(Masked)" ELSE "(Unmasked)", 10),
                     st.title_color, colorize)
            \o Blank(3) \o color(HeaderBorder, st.border_color, colorize),
          Center(payload_length_debug(f.payload_length), 15) \o bar
            \o tick("0") \o Blank(14) \o bar
            \o Blank(4) \o tick("1") \o Blank(10) \o bar
            \o Blank(8) \o tick("2") \o Blank(6) \o bar
            \o Blank(12) \o tick("3") \o Blank(2) \o bar,
          Blank(15) \o bar \o tick("0 1 2 3 4 5 6 7") \o bar
            \o tick("8 9 0 1 2 3 4 5") \o bar
            \o tick("6 7 8 9 0 1 2 3") \o bar
            \o tick("4 5 6 7 8 9 0 1") \o bar
        >>, <<>>)

\* the dword numbers written in the title cells of the two fixed rows
first_dword_title == "1"
second_dword_title == "2"

FirstDwordTop == "+-------+---------------+---------------+---------------+---------------+"
FirstDwordBottom == "+-------+-+-+-+-+-------+-+-------------+-------------------------------+"

\* the two bytes DWORD 1 writes after the length code
first_dword_shows(pl) ==
    IF pl.variant = "Short"
        THEN << <<"masking_key", 0>>, <<"masking_key", 1>> >>
        ELSE << <<"payload_length_bytes", 0>>, <<"payload_length_bytes", 1>> >>

Field(f, ref) ==
    CASE ref[1] = "masking_key" -> At(f.masking_key, ref[2])
      [] ref[1] = "payload_length_bytes" -> At(f.payload_length_bytes, ref[2])
      [] ref[1] = "masked_payload" -> At(f.masked_payload, ref[2])
      [] ref[1] = "unmasked_payload" -> At(f.unmasked_payload, ref[2])

format_first_dword(f, colorize) ==
    LET st == FormatStyle_new
        pl == f.payload_length
        bar == color("|", st.border_color, colorize)
        bit(t) == color(t, st.bit_color, colorize)
        note(t) == color(t, st.notes_color, colorize)
        value(t) == color(t, st.data_value_color, colorize)
        shows == first_dword_shows(pl)
        length_text ==
            IF pl.variant = "Long" THEN u64_to_string(pl.length) \o " bytes"
            ELSE ToString(pl.length) \o " bytes"
        length_bytes ==
            color(Center("(" \o ToString(At(f.payload_length_bytes, 0)) \o ")", 6),
                  st.byte_value_color, colorize)
            \o value(Center(length_text, 19))
            \o color(Center("(" \o ToString(At(f.payload_length_bytes, 1)) \o ")", 6),
                     st.byte_value_color, colorize)
    IN  Rendering(<<
          Blank(7) \o color(FirstDwordTop, st.border_color, colorize),
          Blank(7) \o bar \o color(Center("DWORD", 7), st.dword_title_color, colorize) \o bar
            \o bit(bit_str(f.fin_bit)) \o bar \o bit(bit_str(f.rsv1)) \o bar
            \o bit(bit_str(f.rsv2)) \o bar \o bit(bit_str(f.rsv3)) \o bar
            \o bit(byte_str(f.opcode_bits, 4)) \o bar
            \o bit(bit_str(f.mask_bit)) \o bar
            \o bit(byte_str(f.payload_length_code, 7)) \o bar
            \o bit(byte_str(Field(f, shows[1]), 8)) \o bar
            \o bit(byte_str(Field(f, shows[2]), 8)) \o bar,
          Blank(7) \o bar \o color(Center(first_dword_title, 7), st.dword_title_color, colorize) \o bar
            \o note("F") \o bar \o note("R") \o bar \o note("R") \o bar \o note("R") \o bar
            \o value(Center(f.opcode, 7)) \o bar
            \o note("M") \o bar
            \o value(Center(CASE pl.variant = "Short" -> length_text
                              [] pl.variant = "Medium" -> "126: Medium"
                              [] pl.variant = "Long" -> "127: Long", 13)) \o bar
            \o Center(IF pl.variant = "Short" THEN "" ELSE length_bytes, 31) \o bar,
          Blank(7) \o bar \o Blank(7) \o bar
            \o note("I") \o bar \o note("S") \o bar \o note("S") \o bar \o note("S") \o bar
            \o note(Left("op code", 7)) \o bar
            \o note("A") \o bar
            \o note(Center("Payload len", 13)) \o bar
            \o note(Center(CASE pl.variant = "Short" -> "Masking-key (part 1)"
                             [] pl.variant = "Medium" -> "Payload length"
                             [] pl.variant = "Long" -> "Payload length (Part 1 of 4)", 31))
            \o bar,
          Blank(7) \o bar \o Blank(7) \o bar
            \o note("N") \o bar \o note("V") \o bar \o note("V") \o bar \o note("V") \o bar
            \o note(Center("(4 b)", 7)) \o bar
            \o note("S") \o bar
            \o note(Center("(7 bits)", 13)) \o bar
            \o note(Center("(16 bits)", 31)) \o bar,
          Blank(7) \o bar \o Blank(7) \o bar
            \o Blank(1) \o bar \o note("1") \o bar \o note("2") \o bar \o note("3") \o bar
            \o Blank(7) \o bar
            \o note("K") \o bar
            \o Blank(13) \o bar \o Blank(31) \o bar,
          Blank(7) \o color(FirstDwordBottom, st.border_color, colorize)
        >>, shows)

SecondDwordBottom == "+-------+-------------------------------+-------------------------------+"

\* the four bytes line 1 of DWORD 2 writes, then the bytes line 3 writes
second_dword_shows(pl) ==
    CASE pl.variant = "Short" ->
            << <<"masking_key", 2>>, <<"masking_key", 3>>,
               <<"masked_payload", 0>>, <<"masked_payload", 1>>,
               <<"unmasked_payload", 0>>, <<"unmasked_payload", 1>> >>
      [] pl.variant = "Medium" ->
            << <<"masking_key", 0>>, <<"masking_key", 1>>,
               <<"masking_key", 2>>, <<"masking_key", 3>> >>
      [] pl.variant = "Long" ->
            << <<"payload_length_bytes", 2>>, <<"payload_length_bytes", 3>>,
               <<"payload_length_bytes", 4>>, <<"payload_length_bytes", 5>> >>

\* byte_value with square brackets
byte_value_in_brackets(byte) == "[" \o ToString(byte) \o "]"

\* "({})" of a byte and "'{}'" of a char
byte_value(byte) == "(" \o ToString(byte) \o ")"
char_value(ch) == "'" \o char_to_string(ch) \o "'"

\* Indexing masked_payload[0] and [1] of a Short frame panics past its end.
format_second_dword(f, colorize) ==
    LET st == FormatStyle_new
        pl == f.payload_length
        bar == color("|", st.border_color, colorize)
        bits(b) == color(Center(byte_str(b, 8), 15), st.bit_color, colorize)
        note(t) == color(t, st.notes_color, colorize)
        number(t) == color(t, st.byte_value_color, colorize)
        datum(t) == color(t, st.data_value_color, colorize)
        shows == second_dword_shows(pl)
        line1 ==
            Blank(7) \o bar \o color(Center("DWORD", 7), st.dword_title_color, colorize) \o bar
            \o bits(Field(f, shows[1])) \o bar \o bits(Field(f, shows[2])) \o bar
            \o bits(Field(f, shows[3])) \o bar \o bits(Field(f, shows[4])) \o bar
        title == Blank(7) \o bar \o color(Center(second_dword_title, 7), st.dword_title_color, colorize) \o bar
        margin == Blank(7) \o bar \o Blank(7) \o bar
        bottom == Blank(7) \o color(SecondDwordBottom, st.border_color, colorize)
    IN  CASE pl.variant = "Short" ->
            IF Len(f.masked_payload) < 2 THEN RenderPanic(IndexOutOfBounds)
            ELSE Rendering(<<
              line1,
              title \o Blank(31) \o bar
                \o Blank(1) \o number(Right(byte_value(At(f.masked_payload, 0)), 5))
                \o Blank(6) \o note("MASKED") \o Blank(2)
                \o number(Right(byte_value(At(f.masked_payload, 1)), 5)) \o Blank(6) \o bar,
              margin \o note(Center("Masking-key (part 2)", 31)) \o bar
                \o color(Center(byte_str(At(f.unmasked_payload, 0), 8), 15),
                         st.unmasked_payload_bit_color, colorize) \o bar
                \o color(Center(byte_str(At(f.unmasked_payload, 1), 8), 15),
                         st.unmasked_payload_bit_color, colorize) \o bar,
              margin \o note(Center("(16 bits)", 31)) \o bar
                \o Blank(1) \o number(Right(byte_value(At(f.unmasked_payload, 0)), 5))
                \o Blank(1) \o datum(Left(char_value(At(f.payload_chars, 0)), 3))
                \o Blank(1) \o note("UNMASKED")
                \o Blank(1) \o number(Right(byte_value(At(f.unmasked_payload, 1)), 5))
                \o Blank(1) \o datum(Left(char_value(At(f.payload_chars, 1)), 3))
                \o Blank(2) \o bar,
              margin \o Blank(31) \o bar \o note(Center("Payload Data (part 1)", 31)) \o bar,
              bottom
            >>, shows)
          [] pl.variant = "Medium" ->
            Rendering(<<
              line1,
              title \o Blank(31) \o bar \o Blank(31) \o bar,
              margin \o note(Center("Masking-key (part 1)", 31)) \o bar
                \o note(Center("Masking-key (part 2)", 31)) \o bar,
              margin \o note(Center("(16 bits)", 31)) \o bar
                \o note(Center("(16 bits)", 31)) \o bar,
              margin \o Blank(31) \o bar \o Blank(31) \o bar,
              bottom
            >>, shows)
          [] pl.variant = "Long" ->
            Rendering(<<
              line1,
              title \o Blank(31) \o bar \o Blank(31) \o bar,
              margin \o note(Center("Payload length (part 2 of 4)", 31)) \o bar
                \o note(Center("(16 bits)", 31)) \o bar,
              margin \o note(Center("(16 bits)", 31)) \o bar
                \o note(Center("(16 bits)", 31)) \o bar,
              margin \o Blank(31) \o bar \o Blank(31) \o bar,
              bottom
            >>, shows)

SliceIndexOrder == "slice index starts after it ends"
RangeEndOutOfRange == "range end index out of range for slice"

\* the inline error text of a row of no bytes or of more than four
illegal_byte_indexes(from_byte_ix, to_byte_ix) ==
    "ERROR: Cannot print dword row. Illegal byte indexes provided. from_byte_ix: "
    \o ToString(from_byte_ix) \o " to_byte_ix: " \o ToString(to_byte_ix)

RECURSIVE Concat(_)
Concat(texts) == IF texts = <<>> THEN "" ELSE Head(texts) \o Concat(Tail(texts))

\* the label of line 5 with the short form on every row
payload_part_label_pt(num_bytes, part_number) == "Payload pt " \o ToString(part_number)

\* the label of line 5 of a row of num_bytes bytes
payload_part_label(num_bytes, part_number) ==
    IF num_bytes = 1 THEN "Payload pt " \o ToString(part_number)
    ELSE "Payload Data (part " \o ToString(part_number) \o ")"

\* The subtraction, then the three slices, then the check of the width.
format_payload_dword_row(f, from_byte_ix, to_byte_ix, dword_number, part_number, colorize, overflow_checks) ==
    LET st == FormatStyle_new
        num == usize_sub(to_byte_ix, from_byte_ix, overflow_checks)
        num_bytes == num.value
        masked_bits == slice(f.masked_payload, from_byte_ix, to_byte_ix)
        unmasked_bits == slice(f.unmasked_payload, from_byte_ix, to_byte_ix)
        payload_data == slice(f.payload_chars, from_byte_ix, to_byte_ix)
        bar == color("|", st.border_color, colorize)
        note(t) == color(t, st.notes_color, colorize)
        number(b) == color(Right(byte_value(b), 5), st.byte_value_color, colorize)
        datum(ch) == color(Left(char_value(ch), 3), st.data_value_color, colorize)
        margin == Blank(7) \o bar \o Blank(7) \o bar
        masked_pair(i) ==
            Blank(1) \o number(At(masked_bits, i)) \o Blank(6) \o note("MASKED")
            \o Blank(2) \o number(At(masked_bits, i + 1)) \o Blank(6) \o bar
        masked_single(i) ==
            Blank(1) \o number(At(masked_bits, i)) \o Blank(5) \o note("MSK")
            \o Blank(1) \o bar
        unmasked_pair(i) ==
            Blank(1) \o number(At(unmasked_bits, i)) \o Blank(1) \o datum(At(payload_data, i))
            \o Blank(1) \o note("UNMASKED")
            \o Blank(1) \o number(At(unmasked_bits, i + 1))
            \o Blank(1) \o datum(At(payload_data, i + 1)) \o Blank(2) \o bar
        unmasked_single(i) ==
            Blank(1) \o number(At(unmasked_bits, i))
            \o Blank(1) \o (IF num_bytes = 1
                              THEN color(char_value(At(payload_data, i)),
                                         st.data_value_color, colorize)
                              ELSE datum(At(payload_data, i)))
            \o Blank(1) \o note("UNM") \o Blank(1) \o bar
        label == payload_part_label(num_bytes, part_number)
    IN  IF num.panic THEN RenderPanic(SubtractOverflow)
        ELSE IF num.wrapped THEN RenderPanic(SliceIndexOrder)
        ELSE IF to_byte_ix > Len(f.masked_payload) THEN RenderPanic(RangeEndOutOfRange)
        ELSE IF num_bytes < 1 \/ num_bytes > 4 THEN
            [panic |-> NoPanic,
             text |-> illegal_byte_indexes(from_byte_ix, to_byte_ix),
             shows |-> <<>>]
        ELSE Rendering(<<
            Blank(7) \o bar \o color(Center("DWORD", 7), st.dword_title_color, colorize) \o bar
              \o Concat([i \in 1..num_bytes |->
                    color(byte_str(masked_bits[i], BITS_IN_BYTE), st.bit_color, colorize)
                    \o bar]),
            Blank(7) \o bar
              \o color(Center(ToString(dword_number), 7), st.dword_title_color, colorize) \o bar
              \o (CASE num_bytes = 1 -> masked_single(0)
                    [] num_bytes = 2 -> masked_pair(0)
                    [] num_bytes = 3 -> masked_pair(0) \o masked_single(2)
                    [] num_bytes = 4 -> masked_pair(0) \o masked_pair(2)),
            margin
              \o Concat([i \in 1..num_bytes |->
                    color(byte_str(unmasked_bits[i], BITS_IN_BYTE),
                          st.unmasked_payload_bit_color, colorize) \o bar]),
            margin
              \o (CASE num_bytes = 1 -> unmasked_single(0)
                    [] num_bytes = 2 -> unmasked_pair(0)
                    [] num_bytes = 3 -> unmasked_pair(0) \o unmasked_single(2)
                    [] num_bytes = 4 -> unmasked_pair(0) \o unmasked_pair(2)),
            margin
              \o note(Center(label, CASE num_bytes = 1 -> 15
                                        [] num_bytes = 2 -> 31
                                        [] num_bytes = 3 -> 47
                                        [] num_bytes = 4 -> 63)) \o bar,
            Blank(7) \o color("+-------+", st.border_color, colorize)
              \o Concat([i \in 1..num_bytes |->
                    color("---------------+", st.border_color, colorize)])
          >>,
          [i \in 1..(2 * num_bytes) |->
              IF i <= num_bytes THEN <<"masked_payload", from_byte_ix + (i - 1)>>
              ELSE <<"unmasked_payload", from_byte_ix + (i - num_bytes - 1)>>])

BYTES_IN_DWORD == 4

\* A usize too large for the numbers of the model is kept as huge: it is above
\* every index into a buffer.
Usize(n) == [huge |-> FALSE, value |-> n]
HugeUsize == [huge |-> TRUE, value |-> 0]

\* l.into() of a u8 or u16, l.try_into().unwrap() of a u64 (usize is 64 bits wide)
payload_length_usize(pl) ==
    IF pl.variant = "Long"
        THEN IF pl.length[1] = 0 /\ pl.length[2] = 0 /\ pl.length[3] < 32768
                THEN Usize((pl.length[3] * 65536) + pl.length[4])
                ELSE HugeUsize
        ELSE Usize(pl.length)

\* the dword number of the first generic row
dword_from(pl) ==
    CASE pl.variant = "Short" -> 3
      [] pl.variant = "Medium" -> 3
      [] pl.variant = "Long" -> 4

\* payload_bytes_formatted_already with no byte of a Short frame counted
payload_bytes_formatted_already_short_0(pl) ==
    CASE pl.variant = "Short" -> 0
      [] pl.variant = "Medium" -> 0
      [] pl.variant = "Long" -> 2

payload_bytes_formatted_already(pl) ==
    CASE pl.variant = "Short" -> 2
      [] pl.variant = "Medium" -> 0
      [] pl.variant = "Long" -> 2

\* full_row_part_number counting two parts for each dword
full_row_part_number_by_pairs(i, already) == (i * 2) + already

\* part number handed to the row of full dword i
full_row_part_number(i, already) == i + already
\* trailing_row_part_number counting from 0 after the folded bytes
trailing_row_part_number_from_0(remaining_payload_dwords, already) ==
    remaining_payload_dwords * 2

\* part number handed to the trailing row
trailing_row_part_number(remaining_payload_dwords, already) ==
    (remaining_payload_dwords * 2) + already

RowCall(f, from_byte_ix, to_byte_ix, dword_number, part_number, colorize, overflow_checks) ==
    [from_byte_ix |-> from_byte_ix, to_byte_ix |-> to_byte_ix,
     dword_number |-> dword_number, part_number |-> part_number,
     row |-> format_payload_dword_row(f, from_byte_ix, to_byte_ix, dword_number,
                                      part_number, colorize, overflow_checks)]

\* full_row_call with the rows counted from payload byte 0
full_row_call_from_byte_0(f, i, colorize, overflow_checks) ==
    RowCall(f, i * BYTES_IN_DWORD, BYTES_IN_DWORD + (i * BYTES_IN_DWORD),
            i + dword_from(f.payload_length),
            full_row_part_number(i, payload_bytes_formatted_already(f.payload_length)),
            colorize, overflow_checks)

\* for i in 0..remaining_payload_dwords: call i of the loop
full_row_call(f, i, colorize, overflow_checks) ==
    LET already == payload_bytes_formatted_already(f.payload_length)
        from_byte_ix == (i * BYTES_IN_DWORD) + already
    IN  RowCall(f, from_byte_ix, BYTES_IN_DWORD + from_byte_ix,
                i + dword_from(f.payload_length), full_row_part_number(i, already),
                colorize, overflow_checks)

trailing_row_call(f, remaining_payload_dwords, remaining_bytes, colorize, overflow_checks) ==
    LET already == payload_bytes_formatted_already(f.payload_length)
        from_byte_ix == (remaining_payload_dwords * BYTES_IN_DWORD) + already
    IN  RowCall(f, from_byte_ix, from_byte_ix + remaining_bytes,
                remaining_payload_dwords + dword_from(f.payload_length),
                trailing_row_part_number(remaining_payload_dwords, already),
                colorize, overflow_checks)

(* What format does on frame f: [panic, text, shows, dwords, calls].  shows   *)
(* are the frame bytes written by the rows of DWORD 1 and DWORD 2, dwords the *)
(* dword numbers written in the title cells from top to bottom, calls the     *)
(* calls of format_payload_dword_row in order, the last of them the one that  *)
(* panicked if one did.  A panic leaves no text.                              *)
FormatPanic(msg, calls) ==
    [panic |-> msg, text |-> "", shows |-> <<>>, dwords |-> <<>>, calls |-> calls]

format(f, colorize, overflow_checks) ==
    LET pl == f.payload_length
        header == format_header(f, colorize)
        first == format_first_dword(f, colorize)
        second == format_second_dword(f, colorize)
        payload_length == payload_length_usize(pl)
        already == payload_bytes_formatted_already(pl)
        left == IF payload_length.huge THEN [panic |-> FALSE, wrapped |-> TRUE, value |-> 0]
                ELSE usize_sub(payload_length.value, already, overflow_checks)
        \* a wrapped difference is 2^64 - 1 or 2^64 - 2: the loop outruns the payload
        endless == left.wrapped
        remaining_payload_dwords == left.value \div BYTES_IN_DWORD
        remaining_bytes == left.value % BYTES_IN_DWORD
        \* full rows the payload held by the frame has room for
        room == IF Len(f.masked_payload) >= already
                    THEN (Len(f.masked_payload) - already) \div BYTES_IN_DWORD ELSE 0
        full(n) == [i \in 1..n |-> full_row_call(f, i - 1, colorize, overflow_checks)]
        trailing == trailing_row_call(f, remaining_payload_dwords, remaining_bytes,
                                      colorize, overflow_checks)
        text(calls) ==
            header.text \o first.text \o second.text
            \o Concat([i \in 1..Len(calls) |-> calls[i].row.text])
    IN  IF second.panic # NoPanic THEN FormatPanic(second.panic, <<>>)
        ELSE IF left.panic THEN FormatPanic(SubtractOverflow, <<>>)
        ELSE IF endless \/ remaining_payload_dwords > room
            THEN FormatPanic(full(room + 1)[room + 1].row.panic, full(room + 1))
        ELSE IF remaining_bytes > 0 /\ trailing.row.panic # NoPanic
            THEN FormatPanic(trailing.row.panic, Append(full(remaining_payload_dwords), trailing))
        ELSE LET calls == IF remaining_bytes > 0
                            THEN Append(full(remaining_payload_dwords), trailing)
                            ELSE full(remaining_payload_dwords)
             IN  [panic |-> NoPanic, text |-> text(calls),
                  shows |-> first.shows \o second.shows,
                  dwords |-> <<first_dword_title, second_dword_title>>
                             \o [i \in 1..Len(calls) |-> ToString(calls[i].dword_number)],
                  calls |-> calls]

----------------------------------------------------------------------------
(* ByteList::format and the rows it is made of *)

\* BITS_IN_BYTE of byte_list.rs: the bytes of one qword row
ByteList_BITS_IN_BYTE == 8

\* {:b} of a u8: its binary digits, without leading zeros
RECURSIVE binary(_)
binary(byte) ==
    IF byte < 2 THEN ToString(byte) ELSE binary(byte \div 2) \o ToString(byte % 2)

\* {:0>8b} without the fill
binary_0_8_unfilled(byte) == binary(byte)

\* {:0>8b}: right-aligned in 8 columns, filled with zeros
binary_0_8(byte) == SubSeq("00000000", 1, 8 - Len(binary(byte))) \o binary(byte)

format_qword_table_header ==
    "       +" \o Concat([i \in 1..ByteList_BITS_IN_BYTE |-> "--------+"])
    \o "\n Bytes |"
    \o Concat([i \in 1..ByteList_BITS_IN_BYTE |-> " Byte " \o ToString(i - 1) \o " |"])
    \o "\n+------+" \o Concat([i \in 1..ByteList_BITS_IN_BYTE |-> "--------+"])
    \o "\n"

\* the row, and how many cells it was given
format_qword_row(qword_number, d, num_bytes) ==
    [qword_number |-> qword_number,
     num_bytes |-> num_bytes,
     text |->
        IF Len(d) # num_bytes
        THEN "ERROR: Data must contain exactly " \o ToString(num_bytes)
             \o " bytes. QWORD: " \o ToString(qword_number) \o "\n"
        ELSE "|QWORD |"
             \o Concat([i \in 1..num_bytes |-> binary_0_8(d[i]) \o "|"])
             \o "\n|" \o Center(ToString(qword_number), 6) \o "|"
             \o Concat([i \in 1..num_bytes |-> Right(byte_value(d[i]), 8) \o "|"])
             \o "\n+------+"
             \o Concat([i \in 1..num_bytes |-> "--------+"])
             \o "\n"]

\* ByteList::format: the header, the full qwords, then the final bytes
ByteList_format(d) ==
    LET num_qwords == Len(d) \div ByteList_BITS_IN_BYTE
        full(i) ==
            LET from_byte_ix == i * ByteList_BITS_IN_BYTE
                to_byte_ix == from_byte_ix + ByteList_BITS_IN_BYTE
            IN  format_qword_row(i + 1, slice(d, from_byte_ix, to_byte_ix),
                                 ByteList_BITS_IN_BYTE)
        remaining_bytes == Len(d) % ByteList_BITS_IN_BYTE
        from_byte_ix == num_qwords * ByteList_BITS_IN_BYTE
        to_byte_ix == from_byte_ix + remaining_bytes
        final == format_qword_row(num_qwords + 1, slice(d, from_byte_ix, to_byte_ix),
                                  remaining_bytes)
        rows == [i \in 1..(num_qwords + 1) |-> IF i <= num_qwords THEN full(i - 1) ELSE final]
    IN  [text |-> format_qword_table_header
                  \o Concat([i \in 1..Len(rows) |-> rows[i].text]),
         rows |-> rows]

----------------------------------------------------------------------------
(* Specification of from_bytes over the buffers *)

NotCalled == "not called"

IdleFrame == data = <<>> /\ pc = "idle" /\ frame = NoFrame /\ panic_msg = NoPanic
IdleOpcode == opcode_bits = 0 /\ opcode = NotCalled
IdleUnmask == key = <<0, 0, 0, 0>> /\ original = <<>> /\ bytes = <<>> /\ rounds = 0
\* format and format_payload_dword_row not called yet
NotRendered ==
    [panic |-> NotCalled, text |-> "", shows |-> <<>>, dwords |-> <<>>, calls |-> <<>>]
NoRowCall ==
    [from_byte_ix |-> 0, to_byte_ix |-> 0, dword_number |-> 0, part_number |-> 0,
     row |-> [panic |-> NotCalled, text |-> "", shows |-> <<>>]]
IdleFormat ==
    /\ should_colorize = FALSE
    /\ rendered = NotRendered
    /\ row_call = NoRowCall
    /\ rendered_again = NotRendered
\* ByteList::format not called yet
NoTable == [text |-> NotCalled, rows |-> <<>>]
IdleList == list_data = <<>> /\ table = NoTable

Init ==
    /\ data \in Buffers
    /\ pc = "start"
    /\ frame = NoFrame
    /\ panic_msg = NoPanic
    /\ IdleOpcode /\ IdleUnmask /\ IdleFormat /\ IdleList

\* from_bytes ends: it returns the frame, or it panics and returns nothing
Return(r) ==
    /\ pc' = IF r.panic = NoPanic THEN "returned" ELSE "panicked"
    /\ frame' = r.frame
    /\ panic_msg' = r.panic

\* FromBytes reading the bytes a short buffer lacks as zeros instead of panicking
FromBytesZeroPadded ==
    /\ pc = "start"
    /\ \E overflow_checks \in BOOLEAN :
        Return(from_bytes(IF Len(data) < 14 THEN data \o [i \in 1..(14 - Len(data)) |-> 0]
                          ELSE data, overflow_checks))
    /\ UNCHANGED <<data, opcodeVars, unmaskVars, formatVars, listVars>>

FromBytes ==
    /\ pc = "start"
    /\ \E overflow_checks \in BOOLEAN : Return(from_bytes(data, overflow_checks))
    /\ UNCHANGED <<data, opcodeVars, unmaskVars, formatVars, listVars>>

Next == FromBytes

Spec == Init /\ [][Next]_vars

----------------------------------------------------------------------------
(* Specification of WebSocketOpCode::from_bit_value over every u8 *)

InitOpcode ==
    /\ opcode_bits \in Byte
    /\ opcode = NotCalled
    /\ IdleFrame /\ IdleUnmask /\ IdleFormat /\ IdleList

FromBitValue ==
    /\ opcode = NotCalled
    /\ opcode' = from_bit_value(opcode_bits)
    /\ UNCHANGED <<opcode_bits, frameVars, unmaskVars, formatVars, listVars>>

NextOpcode == FromBitValue

SpecOpcode == InitOpcode /\ [][NextOpcode]_vars

----------------------------------------------------------------------------
(* Specification of the unmasking loop of from_bytes run over its own output *)

InitUnmask ==
    /\ key \in Keys
    /\ original \in Payloads
    /\ bytes = original
    /\ rounds = 0
    /\ IdleFrame /\ IdleOpcode /\ IdleFormat /\ IdleList

Unmask ==
    /\ rounds < MaxRounds
    /\ bytes' = unmask(bytes, 0, Len(bytes), key)
    /\ rounds' = rounds + 1
    /\ UNCHANGED <<key, original, frameVars, opcodeVars, formatVars, listVars>>

NextUnmask == Unmask

SpecUnmask == InitUnmask /\ [][NextUnmask]_vars

----------------------------------------------------------------------------
(* Specification of format over the frames from_bytes returns *)

\* the payload a sender masks: the letters a, b, c, ...
text_byte(i) == 97 + (i % 26)
masked_text(m) == [i \in 1..m |-> BitXor(text_byte(i - 1), At(FrameKey, (i - 1) % 4))]

\* a frame that declares n payload bytes and carries m
EncodeFormatFrame(mask, variant, n, m) ==
    <<129>>
    \o (CASE variant = "Short" -> <<mask + n>>
          [] variant = "Medium" -> <<mask + 126, n \div 256, n % 256>>
          [] variant = "Long" -> <<mask + 127, 0, 0, 0, 0, 0, 0, n \div 256, n % 256>>)
    \o FrameKey \o masked_text(m)

\* Long frames that declare 2^32 and 2^63 + 1 payload bytes
HugeLongBuffers ==
    {<<129, 255>> \o ext \o FrameKey \o masked_text(m) :
        ext \in {<<0, 0, 0, 1, 0, 0, 0, 0>>, <<128, 0, 0, 0, 0, 0, 0, 1>>},
        m \in {0, 2, 6}}

\* masked frames of every opcode and length variant with a payload of 6 bytes
OpcodeBuffers ==
    {<<128 + opcode_value>> \o Tail(EncodeFormatFrame(128, variant, 6, 6)) :
        opcode_value \in 0..15, variant \in {"Short", "Medium", "Long"}}

FormatBuffers ==
    {EncodeFormatFrame(mask, variant, n, m) :
        mask \in {0, 128}, variant \in {"Short", "Medium", "Long"},
        n \in 0..MaxFormatPayload, m \in 0..MaxFormatPayload}
    \cup HugeLongBuffers \cup OpcodeBuffers

InitFormat ==
    /\ data \in FormatBuffers
    /\ pc = "start"
    /\ frame = NoFrame
    /\ panic_msg = NoPanic
    /\ should_colorize \in BOOLEAN
    /\ rendered = NotRendered
    /\ row_call = NoRowCall
    /\ rendered_again = NotRendered
    /\ IdleOpcode /\ IdleUnmask /\ IdleList

\* Format taking &mut self and leaving the masked bytes in place of the unmasked
FormatRemasking ==
    /\ pc = "returned"
    /\ rendered = NotRendered
    /\ \E overflow_checks \in BOOLEAN :
        rendered' = format(frame, should_colorize, overflow_checks)
    /\ frame' = [frame EXCEPT !.unmasked_payload = frame.masked_payload]
    /\ UNCHANGED <<data, pc, panic_msg, should_colorize, row_call, rendered_again,
                   opcodeVars, unmaskVars, listVars>>

\* frame.format() on the frame from_bytes returned; format takes &self
Format ==
    /\ pc = "returned"
    /\ rendered = NotRendered
    /\ \E overflow_checks \in BOOLEAN :
        rendered' = format(frame, should_colorize, overflow_checks)
    /\ UNCHANGED <<frameVars, should_colorize, row_call, rendered_again, opcodeVars,
                   unmaskVars, listVars>>

\* a second frame.format() on the same frame, in the same process, after the
\* first call returned
FormatAgain ==
    /\ rendered.panic = NoPanic
    /\ rendered_again = NotRendered
    /\ \E overflow_checks \in BOOLEAN :
        rendered_again' = format(frame, should_colorize, overflow_checks)
    /\ UNCHANGED <<frameVars, should_colorize, rendered, row_call, opcodeVars,
                   unmaskVars, listVars>>

\* format() on a second frame, decoded from a buffer equal to the first one
FormatDecodedAgain ==
    /\ rendered.panic = NoPanic
    /\ rendered_again = NotRendered
    /\ \E overflow_checks \in BOOLEAN :
        LET second == from_bytes(data, overflow_checks)
        IN  /\ second.panic = NoPanic
            /\ rendered_again' = format(second.frame, should_colorize, overflow_checks)
    /\ UNCHANGED <<frameVars, should_colorize, rendered, row_call, opcodeVars,
                   unmaskVars, listVars>>

NextFormat == FromBytes \/ Format \/ FormatAgain \/ FormatDecodedAgain

SpecFormat == InitFormat /\ [][NextFormat]_vars

----------------------------------------------------------------------------
(* Specification of format_payload_dword_row called on its own *)

RowBuffers ==
    {EncodeFormatFrame(128, "Short", m, m) : m \in 0..MaxRowPayload}

InitRow ==
    /\ data \in RowBuffers
    /\ pc = "start"
    /\ frame = NoFrame
    /\ panic_msg = NoPanic
    /\ should_colorize \in BOOLEAN
    /\ rendered = NotRendered
    /\ row_call = NoRowCall
    /\ rendered_again = NotRendered
    /\ IdleOpcode /\ IdleUnmask /\ IdleList

\* dword and part numbers handed to the row
RowDwordNumbers == {3, 4}
RowPartNumbers == {0, 2}

FormatPayloadDwordRow ==
    /\ pc = "returned"
    /\ row_call = NoRowCall
    /\ \E from_byte_ix \in 0..MaxByteIx, to_byte_ix \in 0..MaxByteIx,
          dword_number \in RowDwordNumbers, part_number \in RowPartNumbers,
          overflow_checks \in BOOLEAN :
        row_call' = RowCall(frame, from_byte_ix, to_byte_ix, dword_number, part_number,
                            should_colorize, overflow_checks)
    /\ UNCHANGED <<frameVars, should_colorize, rendered, rendered_again, opcodeVars,
                   unmaskVars, listVars>>

NextRow == FromBytes \/ FormatPayloadDwordRow

SpecRow == InitRow /\ [][NextRow]_vars

----------------------------------------------------------------------------
(* Specification of one row group of each width over every byte value *)

\* four payload bytes that start at b and go up in steps of 64
quarter_steps(b) == [i \in 1..BYTES_IN_DWORD |-> (b + (64 * (i - 1))) % 256]

\* the masked Text frame a sender makes of the payload
EncodeMasked(payload) ==
    <<129, 128 + Len(payload)>> \o FrameKey
    \o [i \in 1..Len(payload) |-> BitXor(payload[i], At(FrameKey, (i - 1) % 4))]

RowGroupBuffers == {EncodeMasked(quarter_steps(b)) : b \in Byte}

\* part numbers handed to the row: one, two and three digits
RowGroupPartNumbers == {0, 10, MaxPartNumber}

InitRowGroups ==
    /\ data \in RowGroupBuffers
    /\ pc = "start"
    /\ frame = NoFrame
    /\ panic_msg = NoPanic
    /\ should_colorize \in BOOLEAN
    /\ rendered = NotRendered
    /\ row_call = NoRowCall
    /\ rendered_again = NotRendered
    /\ IdleOpcode /\ IdleUnmask /\ IdleList

\* format_payload_dword_row on the first w payload bytes
FormatRowGroup ==
    /\ pc = "returned"
    /\ row_call = NoRowCall
    /\ \E w \in 1..BYTES_IN_DWORD, part_number \in RowGroupPartNumbers,
          overflow_checks \in BOOLEAN :
        row_call' = RowCall(frame, 0, w, 3, part_number, should_colorize, overflow_checks)
    /\ UNCHANGED <<frameVars, should_colorize, rendered, rendered_again, opcodeVars,
                   unmaskVars, listVars>>

NextRowGroups == FromBytes \/ FormatRowGroup

SpecRowGroups == InitRowGroups /\ [][NextRowGroups]_vars

----------------------------------------------------------------------------
(* Specification of from_bytes over frames of some two to three hundred bytes *)

\* well-formed masked Medium and Long frames of up to MaxLongFramePayload bytes
LongFrameBuffers ==
    {EncodeFormatFrame(128, variant, n, n) :
        variant \in {"Medium", "Long"},
        n \in (MaxLongFramePayload - 100)..MaxLongFramePayload}

InitLongFrames ==
    /\ data \in LongFrameBuffers
    /\ pc = "start"
    /\ frame = NoFrame
    /\ panic_msg = NoPanic
    /\ IdleOpcode /\ IdleUnmask /\ IdleFormat /\ IdleList

NextLongFrames == FromBytes

SpecLongFrames == InitLongFrames /\ [][NextLongFrames]_vars

----------------------------------------------------------------------------
(* Specification of ByteList::format over byte lists *)

\* the byte lists: n bytes that start at a seed and go up in steps of 37
ByteLists ==
    {[i \in 1..n |-> (seed + (37 * (i - 1))) % 256] : n \in 0..MaxListLen, seed \in Byte}

InitList ==
    /\ list_data \in ByteLists
    /\ table = NoTable
    /\ IdleFrame /\ IdleOpcode /\ IdleUnmask /\ IdleFormat

\* ByteList::from_bytes(&data).format()
ByteListFormat ==
    /\ table = NoTable
    /\ table' = ByteList_format(list_data)
    /\ UNCHANGED <<list_data, frameVars, opcodeVars, unmaskVars, formatVars>>

NextList == ByteListFormat

SpecList == InitList /\ [][NextList]_vars

----------------------------------------------------------------------------
(* Properties *)

\* byte j (0 the most significant) of a u64 kept as four 16-bit limbs
U64Byte(v, j) == IF j % 2 = 0 THEN v[(j \div 2) + 1] \div 256 ELSE v[(j \div 2) + 1] % 256

\* the u64 of a number small enough to be a buffer length
U64Of(n) == <<0, 0, n \div 65536, n % 65536>>

\* the length code of the buffer, and the extension bytes that code selects
CodeOf(d) == d[2] % 128
ConsumedFor(c) == IF c = 126 THEN 2 ELSE IF c = 127 THEN 8 ELSE 0

\* C1: the payload length of a returned frame follows the RFC rule: a code c in
\* 0..125 gives Short(c), code 126 gives Medium(256 * b[2] + b[3]), code 127 gives
\* Long of the big-endian u64 of b[2..9]; code 126 with extension 00 05 gives
\* Medium(5) and code 127 with extension 00 00 00 00 00 00 00 0A gives Long(10).
C1_PayloadLengthFollowsCode ==
    pc = "returned" =>
        LET c == CodeOf(data)
            pl == frame.payload_length
        IN  /\ c <= 125 => pl = [variant |-> "Short", length |-> c]
            /\ c = 126 => /\ pl.variant = "Medium"
                          /\ pl.length = 256 * data[3] + data[4]
            /\ c = 127 => /\ pl.variant = "Long"
                          /\ \A j \in 0..7 : U64Byte(pl.length, j) = data[3 + j]
            /\ (c = 126 /\ SubSeq(data, 3, 4) = <<0, 5>>)
                    => pl = [variant |-> "Medium", length |-> 5]
            /\ (c = 127 /\ SubSeq(data, 3, 10) = <<0, 0, 0, 0, 0, 0, 0, 10>>)
                    => pl = [variant |-> "Long", length |-> <<0, 0, 0, 10>>]

\* a frame decoded from length code 127 and extension 00 00 00 00 00 00 00 0A
C1_Witness ==
    /\ pc = "returned"
    /\ CodeOf(data) = 127
    /\ frame.payload_length = [variant |-> "Long", length |-> <<0, 0, 0, 10>>]

\* C2: in a returned frame the masking key is the 4 buffer bytes at offset
\* 2 + consumed (consumed 0 for Short, 2 for Medium, 8 for Long) and the payload is
\* the buffer from that offset + 4 on: offsets 6, 8 and 14.
C2_KeyAndPayloadOffsets ==
    pc = "returned" =>
        LET v == frame.payload_length.variant
            consumed == CASE v = "Short" -> 0 [] v = "Medium" -> 2 [] v = "Long" -> 8
            key_offset == 2 + consumed
            payload_start == key_offset + 4
        IN  /\ frame.masking_key = SubSeq(data, key_offset + 1, key_offset + 4)
            /\ frame.masked_payload = SubSeq(data, payload_start + 1, Len(data))
            /\ payload_start = (CASE v = "Short" -> 6 [] v = "Medium" -> 8 [] v = "Long" -> 14)

\* a Medium frame with payload bytes whose key differs from the bytes at offset 2
C2_Witness ==
    /\ pc = "returned"
    /\ frame.payload_length.variant = "Medium"
    /\ Len(frame.masked_payload) >= 1
    /\ SubSeq(data, 3, 6) # SubSeq(data, 5, 8)

\* bit k (0 the least significant) of a byte
BitOf(byte, k) == (byte \div (2 ^ k)) % 2

\* C3: in a returned frame unmasked_payload, payload_chars and masked_payload have
\* one length, and at every index i below it unmasked_payload[i] is
\* masked_payload[i] XOR masking_key[i mod 4], bit by bit, and payload_chars[i] is
\* the character whose code point is unmasked_payload[i].
C3_UnmaskedIsMaskedXorKey ==
    pc = "returned" =>
        /\ Len(frame.unmasked_payload) = Len(frame.masked_payload)
        /\ Len(frame.payload_chars) = Len(frame.masked_payload)
        /\ \A i \in 0..(Len(frame.masked_payload) - 1) :
            /\ frame.unmasked_payload[i + 1] \in Byte
            /\ \A k \in 0..7 :
                BitOf(frame.unmasked_payload[i + 1], k) =
                    IF BitOf(frame.masked_payload[i + 1], k)
                        = BitOf(frame.masking_key[(i % 4) + 1], k) THEN 0 ELSE 1
            /\ frame.payload_chars[i + 1] = [code_point |-> frame.unmasked_payload[i + 1]]

\* a frame of at least 5 payload bytes under a key of four different bytes
C3_Witness ==
    /\ pc = "returned"
    /\ Len(frame.masked_payload) >= 5
    /\ Cardinality({frame.masking_key[i] : i \in 1..4}) = 4
    /\ frame.unmasked_payload[5] # frame.masked_payload[5]

\* C4: the unmasking loop run twice with one key gives back the bytes it started
\* from.
C4_UnmaskTwiceIsIdentity ==
    rounds = 2 => bytes = original

\* two runs over 5 bytes with a key of three different bytes
C4_Witness ==
    /\ rounds = 2
    /\ Len(original) = 5
    /\ key = <<90, 0, 255, 90>>

\* C5: with bit 0 the most significant bit of a byte, a returned frame has fin,
\* rsv1, rsv2, rsv3 = bits 0, 1, 2, 3 of b[0], opcode_bits = b[0] AND 0x0F,
\* mask_bit = is_payload_masked = bit 0 of b[1] and payload_length_code =
\* b[1] AND 0x7F.
C5_HeaderBits ==
    pc = "returned" =>
        /\ frame.fin_bit = (BitOf(data[1], 7) = 1)
        /\ frame.rsv1 = (BitOf(data[1], 6) = 1)
        /\ frame.rsv2 = (BitOf(data[1], 5) = 1)
        /\ frame.rsv3 = (BitOf(data[1], 4) = 1)
        /\ frame.opcode_bits = data[1] % 16
        /\ frame.mask_bit = (data[2] >= 128)
        /\ frame.is_payload_masked = (data[2] >= 128)
        /\ frame.payload_length_code = data[2] % 128

\* a frame from first byte 1010 0101 and second byte 1000 0011
C5_Witness ==
    /\ pc = "returned"
    /\ data[1] = 165
    /\ data[2] = 131
    /\ frame.fin_bit /\ ~frame.rsv1 /\ frame.rsv2 /\ ~frame.rsv3
    /\ frame.opcode_bits = 5

OpCodes == {"Continuation", "Text", "Binary", "CloseConnection", "Ping", "Pong",
            "Unrecognized", "ReservedFuture"}

\* C6: from_bit_value returns an opcode for every u8: 0 Continuation, 1 Text,
\* 2 Binary, 8 CloseConnection, 9 Ping, 10 Pong, 3..7 and 11..15 ReservedFuture,
\* above 15 Unrecognized.
C6_FromBitValueTable ==
    opcode # NotCalled =>
        /\ opcode \in OpCodes
        /\ opcode_bits = 0 => opcode = "Continuation"
        /\ opcode_bits = 1 => opcode = "Text"
        /\ opcode_bits = 2 => opcode = "Binary"
        /\ opcode_bits = 8 => opcode = "CloseConnection"
        /\ opcode_bits = 9 => opcode = "Ping"
        /\ opcode_bits = 10 => opcode = "Pong"
        /\ opcode_bits \in (3..7) \cup (11..15) => opcode = "ReservedFuture"
        /\ opcode_bits > 15 => opcode = "Unrecognized"

\* the call on 14, a reserved value
C6_Witness ==
    /\ opcode_bits = 14
    /\ opcode = "ReservedFuture"

\* the payload length a frame's length field declares, as a u64
DeclaredLength(pl) == IF pl.variant = "Long" THEN pl.length ELSE U64Of(pl.length)

\* C7: in a returned frame masked_payload is as long as the decoded payload
\* length says, whatever the length of the buffer.  Stated of the frames with the
\* mask bit set, the ones the decoder is meant for.
C7_MaskedPayloadHasDecodedLength ==
    (pc = "returned" /\ frame.mask_bit) =>
        DeclaredLength(frame.payload_length) = U64Of(Len(frame.masked_payload))

\* the buffer lacks a header byte, an extension byte of its length code or a
\* masking-key byte
TooShortForKey(d) ==
    \/ Len(d) < 2
    \/ Len(d) < 2 + ConsumedFor(CodeOf(d)) + 4

\* C8: on a buffer too short for the two header bytes, the extension bytes of its
\* length code or the 4 masking-key bytes, from_bytes panics and returns no frame.
C8_ShortBufferPanics ==
    (pc # "start" /\ TooShortForKey(data)) =>
        /\ pc = "panicked"
        /\ frame = NoFrame
        /\ panic_msg \in {IndexOutOfBounds, SubtractOverflow}

\* a length code 127 buffer that holds the 8 extension bytes and 3 key bytes
C8_Witness ==
    /\ pc = "panicked"
    /\ Len(data) = 13
    /\ CodeOf(data) = 127

\* the buffer holds its header, with the mask bit set, and its key, and fewer
\* payload bytes than it declares
LacksPayload(d) ==
    /\ ~TooShortForKey(d)
    /\ d[2] >= 128
    /\ LET c == CodeOf(d)
           have == Len(d) - (2 + ConsumedFor(c) + 4)
       IN  CASE c <= 125 -> have < c
             [] c = 126 -> have < 256 * d[3] + d[4]
             [] c = 127 -> \/ \E j \in 3..8 : d[j] # 0
                           \/ have < 256 * d[9] + d[10]

\* C9: on a buffer that holds header and key and fewer payload bytes than its
\* length field declares, from_bytes fails and produces no frame.
C9_MissingPayloadIsRejected ==
    (pc # "start" /\ LacksPayload(data)) => (pc = "panicked" /\ frame = NoFrame)

\* C10: a buffer whose mask bit is 0 is never decoded into a frame.
C10_UnmaskedFrameIsRejected ==
    (pc # "start" /\ Len(data) >= 2 /\ data[2] < 128) => (pc = "panicked" /\ frame = NoFrame)

----------------------------------------------------------------------------
(* Properties of format *)

\* format was called and returned the text
Returned == rendered.panic = NoPanic
\* the decoded payload length of a frame, where the model's numbers hold it
DecodedLength(f) == payload_length_usize(f.payload_length).value
\* the frame carries the payload bytes it declares
CarriesPayload(f) ==
    /\ ~payload_length_usize(f.payload_length).huge
    /\ Len(f.masked_payload) >= DecodedLength(f)
\* payload bytes folded into the fixed header rows
FoldedAmount(f) ==
    CASE f.payload_length.variant = "Short" -> 2
      [] f.payload_length.variant = "Medium" -> 0
      [] f.payload_length.variant = "Long" -> 2
CeilDiv(a, b) == (a + (b - 1)) \div b
Min(a, b) == IF a <= b THEN a ELSE b
\* how often the rendering writes byte ix of a field in its fixed header rows
ShownInHeaderRows(field, ix) ==
    Cardinality({k \in 1..Len(rendered.shows) : rendered.shows[k] = <<field, ix>>})
\* how many generic row-groups cover payload byte ix
ShownInGenericRows(ix) ==
    Cardinality({k \in 1..Len(rendered.calls) :
        rendered.calls[k].from_byte_ix <= ix /\ ix < rendered.calls[k].to_byte_ix})

(* C11: for a frame that carries a payload of decoded length L, with f the   *)
(* folded amount (2 Short, 0 Medium, 2 Long) and L >= f, format returns and  *)
(* has emitted exactly ceil((L - f) / 4) generic row-groups, the k-th of     *)
(* them (k from 0) over the payload bytes f + 4k up to min(f + 4k + 4, L).   *)
C11_GenericRowGroups ==
    (rendered # NotRendered /\ CarriesPayload(frame)
        /\ DecodedLength(frame) >= FoldedAmount(frame)) =>
        /\ Returned
        /\ Len(rendered.calls) = CeilDiv(DecodedLength(frame) - FoldedAmount(frame), 4)
        /\ \A k \in 0..(Len(rendered.calls) - 1) :
            /\ rendered.calls[k + 1].from_byte_ix = FoldedAmount(frame) + (4 * k)
            /\ rendered.calls[k + 1].to_byte_ix =
                    Min(FoldedAmount(frame) + (4 * k) + 4, DecodedLength(frame))
            /\ rendered.calls[k + 1].row.panic = NoPanic

\* a Medium frame of 11 payload bytes rendered in two full rows and a row of 3
C11_Witness ==
    /\ Returned
    /\ frame.payload_length = Medium(11)
    /\ Len(rendered.calls) = 3
    /\ rendered.calls[3].from_byte_ix = 8 /\ rendered.calls[3].to_byte_ix = 11

(* C12: in a rendering that format returned for a masked frame carrying its  *)
(* L payload bytes, every payload byte index i < L is shown exactly once:    *)
(* in the fixed header rows or in exactly one generic row-group.             *)
C12_EveryPayloadByteShownOnce ==
    (Returned /\ frame.mask_bit /\ CarriesPayload(frame)) =>
        \A i \in 0..(DecodedLength(frame) - 1) :
            ShownInHeaderRows("masked_payload", i) + ShownInGenericRows(i) = 1

(* C13: the fixed header rows of a rendering returned for a masked frame     *)
(* carrying its payload show every length-extension byte and all 4 masking-  *)
(* key bytes: Short key bytes 0, 1 in DWORD 1 and 2, 3 in DWORD 2; Medium    *)
(* the 2 length bytes in DWORD 1 and the key in DWORD 2; Long its 8 length   *)
(* bytes and the 4 key bytes.                                                *)
C13_HeaderRowsShowLengthAndKey ==
    (Returned /\ frame.mask_bit /\ CarriesPayload(frame)) =>
        CASE frame.payload_length.variant = "Short" ->
                /\ SubSeq(rendered.shows, 1, 2)
                    = << <<"masking_key", 0>>, <<"masking_key", 1>> >>
                /\ SubSeq(rendered.shows, 3, 4)
                    = << <<"masking_key", 2>>, <<"masking_key", 3>> >>
          [] frame.payload_length.variant = "Medium" ->
                /\ SubSeq(rendered.shows, 1, 2)
                    = << <<"payload_length_bytes", 0>>, <<"payload_length_bytes", 1>> >>
                /\ SubSeq(rendered.shows, 3, 6)
                    = << <<"masking_key", 0>>, <<"masking_key", 1>>,
                         <<"masking_key", 2>>, <<"masking_key", 3>> >>
          [] frame.payload_length.variant = "Long" ->
                /\ \A i \in 0..7 : ShownInHeaderRows("payload_length_bytes", i) = 1
                /\ \A i \in 0..3 : ShownInHeaderRows("masking_key", i) = 1

\* the text holds sub as a substring
Contains(text, sub) ==
    \E i \in 1..((Len(text) - Len(sub)) + 1) : SubSeq(text, i, (i + Len(sub)) - 1) = sub

\* format_payload_dword_row was called on its own
RowCalled == row_call # NoRowCall

(* C14: a call of format_payload_dword_row for a byte range of width 0 or 5  *)
(* does not panic and returns the inline error text, which holds both        *)
(* from_byte_ix and to_byte_ix, for every such range.                        *)
C14_IllegalWidthIsInlineError ==
    (RowCalled /\ row_call.to_byte_ix - row_call.from_byte_ix \in {0, 5}) =>
        /\ row_call.row.panic = NoPanic
        /\ Contains(row_call.row.text, "ERROR")
        /\ Contains(row_call.row.text, "from_byte_ix: " \o ToString(row_call.from_byte_ix))
        /\ Contains(row_call.row.text, "to_byte_ix: " \o ToString(row_call.to_byte_ix))

(* C15: a call of format_payload_dword_row for a byte range that exceeds the *)
(* payload (to_byte_ix above the number of payload bytes, or from_byte_ix    *)
(* above to_byte_ix) does not panic and returns an inline error marker.      *)
C15_OutOfBoundsRowIsInlineError ==
    (RowCalled /\ (\/ row_call.to_byte_ix > Len(frame.masked_payload)
                   \/ row_call.from_byte_ix > row_call.to_byte_ix)) =>
        /\ row_call.row.panic = NoPanic
        /\ Contains(row_call.row.text, "ERROR")

(* C16: for a frame whose decoded payload length is exactly the folded       *)
(* amount (2 Short, 0 Medium, 2 Long) format calls                           *)
(* format_payload_dword_row no times, and returns if the frame carries its   *)
(* payload.                                                                  *)
C16_NoGenericRowAtFoldedLength ==
    (rendered # NotRendered /\ ~payload_length_usize(frame.payload_length).huge
        /\ DecodedLength(frame) = FoldedAmount(frame)) =>
        /\ Len(rendered.calls) = 0
        /\ CarriesPayload(frame) => Returned

\* a Short frame of 2 payload bytes rendered with the fixed rows alone
C16_Witness ==
    /\ Returned
    /\ frame.payload_length = Short(2)
    /\ Len(frame.masked_payload) = 2
    /\ rendered.calls = <<>>

(* C17: for a Short frame that carries n payload bytes beyond the 2 folded   *)
(* ones, 1 <= n <= 3, format returns one generic row-group, of bytes 2 up to *)
(* 2 + n, with part number 2 in its label: 'Payload Data (part 2)' for       *)
(* n = 2 and n = 3, 'Payload pt 2' for n = 1.                                *)
C17_ShortTrailingRow ==
    (rendered # NotRendered /\ frame.payload_length.variant = "Short"
        /\ CarriesPayload(frame) /\ DecodedLength(frame) - 2 \in 1..3) =>
        /\ Returned
        /\ Len(rendered.calls) = 1
        /\ rendered.calls[1].from_byte_ix = 2
        /\ rendered.calls[1].to_byte_ix = DecodedLength(frame)
        /\ rendered.calls[1].part_number = 2
        /\ Contains(rendered.calls[1].row.text,
                    IF DecodedLength(frame) - 2 = 1 THEN "Payload pt 2"
                    ELSE "Payload Data (part 2)")

\* a Short frame of 3 payload bytes rendered in colour with a row of one byte
C17_Witness ==
    /\ Returned
    /\ should_colorize
    /\ frame.payload_length = Short(3)
    /\ Len(rendered.calls) = 1
    /\ rendered.calls[1].to_byte_ix - rendered.calls[1].from_byte_ix = 1

(* C18: in a rendering returned for a masked frame carrying its payload the  *)
(* dword number of the first generic row is 3 for Short, 3 for Medium and 4  *)
(* for Long, each later generic row adds 1, and the dword numbers written    *)
(* down the diagram are 1, 2, 3, ... with no gap.                            *)
C18_DwordNumbersWithoutGap ==
    (Returned /\ frame.mask_bit /\ CarriesPayload(frame)) =>
        /\ \A k \in 1..Len(rendered.calls) :
            rendered.calls[k].dword_number =
                (k - 1) + (CASE frame.payload_length.variant = "Short" -> 3
                             [] frame.payload_length.variant = "Medium" -> 3
                             [] frame.payload_length.variant = "Long" -> 4)
        /\ rendered.dwords = [k \in 1..Len(rendered.dwords) |-> ToString(k)]

(* C19 as stated: the part number of every generic row, full or trailing, in *)
(* all three variants, is from_byte_ix div 2.                                *)
C19_PartNumberIsHalfFromByteIx ==
    (Returned /\ frame.mask_bit /\ CarriesPayload(frame)) =>
        \A k \in 1..Len(rendered.calls) :
            rendered.calls[k].part_number = rendered.calls[k].from_byte_ix \div 2

(* C19 amended: with f the folded amount (2 Short, 0 Medium, 2 Long), the    *)
(* part number in the label of the i-th full 4-byte row (i from 0) is i + f, *)
(* and that of the trailing row after d full rows is 2d + f.                 *)
C19_PartNumberByRow ==
    (Returned /\ frame.mask_bit /\ CarriesPayload(frame)) =>
        \A k \in 1..Len(rendered.calls) :
            LET call == rendered.calls[k]
                part == IF call.to_byte_ix - call.from_byte_ix = 4
                            THEN (k - 1) + FoldedAmount(frame)
                            ELSE (2 * (k - 1)) + FoldedAmount(frame)
            IN  /\ call.part_number = part
                /\ Contains(call.row.text,
                            IF call.to_byte_ix - call.from_byte_ix = 1
                                THEN "Payload pt " \o ToString(part)
                                ELSE "Payload Data (part " \o ToString(part) \o ")")

\* a Short frame of 13 payload bytes: full rows of parts 2 and 3, then a
\* trailing row of part 6 from byte 10
C19_Witness ==
    /\ Returned
    /\ frame.mask_bit
    /\ frame.payload_length = Short(13)
    /\ Len(rendered.calls) = 3
    /\ rendered.calls[2].part_number = 3
    /\ rendered.calls[3].from_byte_ix = 10
    /\ rendered.calls[3].part_number = 6

\* character i of the text lies in a colour sequence ESC [ digits m
InColorSequence(text, i) ==
    \E j \in (IF i > 4 THEN i - 4 ELSE 1)..i :
        /\ SubSeq(text, j, j) = ESC
        /\ j < Len(text)
        /\ SubSeq(text, j + 1, j + 1) = "["
        /\ \A k \in (j + 1)..(i - 1) : SubSeq(text, k, k) # "m"

\* characters from..to of the text with the colour sequences taken out
RECURSIVE VisibleBetween(_, _, _)
VisibleBetween(text, from, to) ==
    IF from > to THEN ""
    ELSE IF from = to
        THEN IF InColorSequence(text, from) THEN "" ELSE SubSeq(text, from, from)
    ELSE VisibleBetween(text, from, (from + to) \div 2)
         \o VisibleBetween(text, ((from + to) \div 2) + 1, to)

\* the text as a terminal shows it
Visible(text) == VisibleBetween(text, 1, Len(text))

\* the frame 81 83 5A 0E 91 36 3B 6C F2 and what it decodes to
C20_Buffer == <<129, 131, 90, 14, 145, 54, 59, 108, 242>>
C20_Decoded ==
    /\ pc = "returned"
    /\ frame.fin_bit
    /\ frame.opcode = "Text"
    /\ frame.mask_bit
    /\ frame.payload_length = Short(3)
    /\ frame.masking_key = <<90, 14, 145, 54>>
    /\ frame.masked_payload = <<59, 108, 242>>
    /\ frame.unmasked_payload = <<97, 98, 99>>

(* C20 as stated: 81 83 5A 0E 91 36 3B 6C F2 decodes to fin = 1, Text, mask  *)
(* bit 1, Short(3), key 5A 0E 91 36, masked payload 3B 6C F2 and unmasked    *)
(* payload 61 62 63, and the text format returns holds the substrings        *)
(* (97) 'a', (98) 'b' and (99) 'c'.                                          *)
C20_OutputHoldsSubstrings ==
    (data = C20_Buffer /\ rendered # NotRendered) =>
        /\ C20_Decoded
        /\ Returned
        /\ Contains(rendered.text, "(97) 'a'")
        /\ Contains(rendered.text, "(98) 'b'")
        /\ Contains(rendered.text, "(99) 'c'")

(* C20 amended: the frame decodes as stated, and the text format returns     *)
(* holds the substrings (97) 'a', (98) 'b' and (99) 'c' once its colour      *)
(* sequences are taken out, whether colouring is on or off.                  *)
C20_VisibleOutputHoldsSubstrings ==
    (data = C20_Buffer /\ rendered # NotRendered) =>
        /\ C20_Decoded
        /\ Returned
        /\ Contains(Visible(rendered.text), "(97) 'a'")
        /\ Contains(Visible(rendered.text), "(98) 'b'")
        /\ Contains(Visible(rendered.text), "(99) 'c'")

\* the frame rendered in colour: each value and character in its own sequence
C20_Witness ==
    /\ data = C20_Buffer
    /\ Returned
    /\ should_colorize
    /\ Contains(rendered.text, "(97)" \o ESC \o "[0m " \o ESC \o "[31m'a'")

----------------------------------------------------------------------------
(* Properties of repeated renders *)

\* a step that is a call of format
FormatCalled == rendered' # rendered \/ rendered_again' # rendered_again

WellFormedMasked(d, f) ==
    /\ f.mask_bit
    /\ ~payload_length_usize(f.payload_length).huge
    /\ Len(d) = payload_start_index(f.payload_length) + DecodedLength(f)

(* C25: for every buffer that is a well-formed masked frame, decoded payload *)
(* lengths 0 and 1 included, format on the frame from_bytes returned         *)
(* completes and returns a string: no index out of range, no arithmetic      *)
(* underflow.                                                                *)
C25_FormatReturnsOnWellFormedFrames ==
    (rendered # NotRendered /\ WellFormedMasked(data, frame)) => Returned

----------------------------------------------------------------------------
(* Properties of one row group *)

\* the places of the newlines of a text, and the lines they end; what follows
\* the last newline is a line if it is not empty
Newlines(text) == {i \in 1..Len(text) : SubSeq(text, i, i) = "\n"}
NthOf(places, n) == CHOOSE i \in places : Cardinality({j \in places : j < i}) = n - 1
Lines(text) ==
    LET ends == Newlines(text) \cup (IF Len(text) \in Newlines(text) THEN {}
                                     ELSE {Len(text) + 1})
        starts == {0} \cup Newlines(text)
    IN  [n \in 1..Cardinality(ends) |->
            SubSeq(text, NthOf(starts, n) + 1, NthOf(ends, n) - 1)]

\* the columns a terminal's cursor reaches on a line without colour sequences,
\* from column col on: a tab goes to the next multiple of 8, a carriage
\* return to column 0, a control character takes no column, every other
\* character one
Movers(line) == {i \in 1..Len(line) : SubSeq(line, i, i) \in {"\t", "\r"}}
Glyphs(line) == Cardinality({i \in 1..Len(line) : SubSeq(line, i, i) # OtherChar})
RECURSIVE Columns(_, _)
Columns(line, col) ==
    IF Movers(line) = {} THEN col + Glyphs(line)
    ELSE LET p == NthOf(Movers(line), 1)
             before == col + Glyphs(SubSeq(line, 1, p - 1))
             rest == SubSeq(line, p + 1, Len(line))
         IN  IF SubSeq(line, p, p) = "\t"
             THEN Columns(rest, ((before \div 8) + 1) * 8)
             ELSE IF before >= Columns(rest, 0) THEN before ELSE Columns(rest, 0)

\* the lines of the row as a terminal shows them
RowLines == Lines(Visible(row_call.row.text))
RowWidth == row_call.to_byte_ix - row_call.from_byte_ix
RowReturned == row_call.row.panic = NoPanic /\ RowWidth \in 1..4

(* C23: the six lines of a row group of width w, 1 <= w <= 4, all have the   *)
(* visible width 16 + 16 * w, for every byte value 0..255 in the row and     *)
(* every part number below 1000.                                             *)
C23_RowGroupIsRectangular ==
    (RowReturned /\ row_call.part_number < 1000) =>
        LET lines == RowLines
        IN  /\ Len(lines) = 6
            /\ \A n \in 1..Len(lines) : Columns(lines[n], 0) = 16 + (16 * RowWidth)

\* how often, and where first, a text holds a word
Places(text, word) ==
    {i \in 1..(Len(text) - (Len(word) - 1)) : SubSeq(text, i, i + (Len(word) - 1)) = word}
Count(text, word) == Cardinality(Places(text, word))
Before(text, first, second) ==
    \A i \in Places(text, first), j \in Places(text, second) : i < j

\* a text without the spaces around it
Trim(text) ==
    LET ink == {i \in 1..Len(text) : SubSeq(text, i, i) # " "}
    IN  IF ink = {} THEN ""
        ELSE SubSeq(text, CHOOSE i \in ink : \A j \in ink : i <= j,
                    CHOOSE i \in ink : \A j \in ink : i >= j)

(* C24: in a row group of width w the masked-value line holds MASKED once    *)
(* per complete pair of bytes and MSK for a lone last byte (w = 1: MSK,      *)
(* w = 2: MASKED, w = 3: MASKED then MSK, w = 4: MASKED twice), the          *)
(* unmasked-value line holds UNMASKED and UNM in the same pattern, and the   *)
(* label line reads "Payload pt N" when w = 1 and "Payload Data (part N)"    *)
(* when w is 2, 3 or 4, and not the other.                                   *)
C24_RowLabels ==
    RowReturned =>
        LET lines == RowLines
            w == RowWidth
            masked_values == lines[2]
            \* a newline among the previews cuts this line in pieces
            unmasked_values == Concat([n \in 1..(Len(lines) - 5) |-> lines[n + 3]])
            label == lines[Len(lines) - 1]
            N == ToString(row_call.part_number)
        IN  /\ Len(lines) >= 6
            /\ Count(masked_values, "MASKED") = w \div 2
            /\ Count(masked_values, "MSK") = w % 2
            /\ Before(masked_values, "MASKED", "MSK")
            /\ Count(masked_values, "UNM") = 0
            /\ Count(unmasked_values, "UNMASKED") = w \div 2
            /\ Count(unmasked_values, "UNM ") = w % 2
            /\ Before(unmasked_values, "UNMASKED", "UNM ")
            /\ Count(unmasked_values, "MASKED") = w \div 2
            /\ Count(unmasked_values, "MSK") = 0
            /\ SubSeq(label, 1, 16) = "       |       |"
            /\ SubSeq(label, Len(label), Len(label)) = "|"
            /\ Trim(SubSeq(label, 17, Len(label) - 1)) =
                  (IF w = 1 THEN "Payload pt " \o N ELSE "Payload Data (part " \o N \o ")")

\* a row of three bytes rendered in colour: a pair and a lone byte
C24_Witness ==
    /\ RowReturned
    /\ RowWidth = 3
    /\ should_colorize
    /\ row_call.part_number = 10
    /\ frame.unmasked_payload = <<97, 161, 225, 33>>
    /\ Contains(row_call.row.text, "MASKED")
    /\ Contains(row_call.row.text, "MSK")
    /\ Contains(row_call.row.text, "UNM" \o ESC)
    /\ Contains(row_call.row.text, "Payload Data (part 10)")

----------------------------------------------------------------------------
(* Properties of the DWORD 1 row *)

\* the place of the DWORD 1 row in the text format returned
FirstDwordStart == Len(format_header(frame, should_colorize).text)
FirstDwordText ==
    SubSeq(rendered.text, FirstDwordStart + 1,
           FirstDwordStart + Len(format_first_dword(frame, should_colorize).text))

(* C26: the lines of the DWORD 1 row (top border, bit values, opcode name    *)
(* and length summary, three note lines, bottom border) all have the same    *)
(* visible width, for every opcode the decoder produces and every length     *)
(* variant.                                                                  *)
C26_FirstDwordIsRectangular ==
    Returned =>
        LET lines == Lines(Visible(FirstDwordText))
        IN  /\ FirstDwordText = format_first_dword(frame, should_colorize).text
            /\ Len(lines) = 7
            /\ \A n \in 1..Len(lines) : Columns(lines[n], 0) = Columns(lines[1], 0)

----------------------------------------------------------------------------
(* Properties of frame_len *)

(* C27: the field frame_len of every frame from_bytes returns is the number  *)
(* of bytes of the input buffer, for every buffer length, 256 bytes and      *)
(* more included.                                                            *)
C27_FrameLenIsBufferLength ==
    pc = "returned" => frame.frame_len = Len(data)

----------------------------------------------------------------------------
(* Properties of ByteList::format *)

\* the header as the test of byte_list.rs records it
QwordTableHeader ==
    "       +--------+--------+--------+--------+--------+--------+--------+--------+\n"
    \o " Bytes | Byte 0 | Byte 1 | Byte 2 | Byte 3 | Byte 4 | Byte 5 | Byte 6 | Byte 7 |\n"
    \o "+------+--------+--------+--------+--------+--------+--------+--------+--------+\n"

\* a byte as eight binary digits, most significant first
EightBits(byte) == Concat([k \in 1..8 |-> ToString(BitOf(byte, 8 - k))])
\* a byte as its decimal value in parentheses, right-aligned to 8 columns
ValueCell(byte) ==
    Blank(8 - Len("(" \o ToString(byte) \o ")")) \o "(" \o ToString(byte) \o ")"

(* C22: for a list of n bytes, 1 <= n <= 7, ByteList::format returns the     *)
(* 3-line header and then one QWORD row, numbered 1, of n cells: the bytes   *)
(* as 8 binary digits, their decimal values in parentheses right-aligned to  *)
(* 8 columns, and a bottom border of n segments.                             *)
C22_ShortListIsOneRow ==
    (table # NoTable /\ Len(list_data) \in 1..7) =>
        /\ Len(table.rows) = 1
        /\ table.rows[1].qword_number = 1
        /\ table.rows[1].num_bytes = Len(list_data)
        /\ table.text =
              QwordTableHeader
              \o "|QWORD |"
              \o Concat([i \in 1..Len(list_data) |-> EightBits(list_data[i]) \o "|"])
              \o "\n|  1   |"
              \o Concat([i \in 1..Len(list_data) |-> ValueCell(list_data[i]) \o "|"])
              \o "\n+------+"
              \o Concat([i \in 1..Len(list_data) |-> "--------+"])
              \o "\n"

\* the list of the test of byte_list.rs and the string it expects
C22_Witness ==
    /\ list_data = <<129>>
    /\ table.text = QwordTableHeader
                     \o "|QWORD |10000001|\n|  1   |   (129)|\n+------+--------+\n"

(* C28: for a list of n bytes ByteList::format emits ceil(n / 8) QWORD rows *)
(* after the header, each of 1 to 8 bytes, and no row of zero bytes, also    *)
(* when n is 0 or a multiple of 8.                                           *)
C28_NoEmptyQwordRow ==
    table # NoTable =>
        /\ Len(table.rows) = CeilDiv(Len(list_data), 8)
        /\ \A i \in 1..Len(table.rows) : table.rows[i].num_bytes \in 1..8
        /\ table.text = QwordTableHeader
                         \o Concat([i \in 1..Len(table.rows) |-> table.rows[i].text])

====
